---- MODULE Spec2Model ----
(***************************************************************************)
(* Model of the nextcloud-passwords-client bindings generator.             *)
(*                                                                         *)
(* create_binding! (src/src/utils.rs) is a token muncher: the entry arm    *)
(* turns a tagged struct declaration into seven empty accumulators         *)
(* followed by the list of `(field) [tags]` items; every later arm looks   *)
(* at the FIRST tag of the FIRST item, appends the field to one            *)
(* accumulator and re-emits the item with the remaining tags (or drops the *)
(* item when no tag is left); the terminal arm, which only matches when no *)
(* item is left, emits the Entity, VersionedEntity, CreateEntity,          *)
(* EntitySearch and UpdateEntity types with their builders.                *)
(*                                                                         *)
(* A schema field is identified by its position in the declaration.        *)
(*                                                                         *)
(* The second half models the library at run time (src/src/lib.rs and the  *)
(* sub-clients): sessions are opened, resumed and closed, entity and       *)
(* settings operations send one request each and classify the response.    *)
(* Spec is the expansion of a declaration and the use of its builders,     *)
(* ClientSpec the life of a caller's session.                              *)
(***************************************************************************)
EXTENDS Integers, Sequences, FiniteSets, TLC

\* ------------------------------------------------------------------ bounds
MaxFields == 2      \* fields in a schema
MaxTags == 3        \* tags written in a schema, over all its fields
MaxCalls == 2       \* setter calls made on a builder value

\* ------------------------------------------------------------- tag tokens
CreateRequired == "create(required)"
CreateOptional == "create(optional)"
UpdateRequired == "update(required)"
UpdateOptional == "update(optional)"
SearchTag == "search"
VersionedTrue == "versioned(true)"
VersionedFalse == "versioned(false)"
\* a tag no arm of the macro knows: the bare `versioned` written in
\* folder.rs and password.rs
BareVersioned == "versioned"

KnownTags ==
    {CreateRequired, CreateOptional, UpdateRequired, UpdateOptional,
     SearchTag, VersionedTrue, VersionedFalse}

Tags == KnownTags \cup {BareVersioned}

\* ------------------------------------------------------------ sequences
SeqsUpTo(S, n) == UNION {[1..k -> S] : k \in 0..n}

Range(s) == {s[i] : i \in 1..Len(s)}

RECURSIVE Sum(_)
Sum(ns) == IF ns = <<>> THEN 0 ELSE Head(ns) + Sum(Tail(ns))

\* the tags tl cut into consecutive tag lists of the given lengths
RECURSIVE Split(_, _)
Split(tl, lens) ==
    IF lens = <<>> THEN <<>>
    ELSE <<SubSeq(tl, 1, Head(lens))>>
            \o Split(SubSeq(tl, Head(lens) + 1, Len(tl)), Tail(lens))

\* The schemas explored: up to MaxFields fields, each with a tag list, at
\* most MaxTags tags in all.
TagListLengths == {lens \in SeqsUpTo(0..MaxTags, MaxFields) : Sum(lens) <= MaxTags}

IsSchema(s) ==
    \E lens \in TagListLengths : \E tl \in [1..Sum(lens) -> Tags] :
        s = Split(tl, lens)

VARIABLES
    schema,         \* the declaration: schema[i] is the tag list of field i
    rest,           \* items not yet munched: <<[field, tags], ...>>
    create_new,     \* @create_new accumulator (create(required))
    create,         \* @create accumulator (create(optional))
    update_new,     \* @update_new accumulator (update(required))
    update,         \* @update accumulator (update(optional))
    search,         \* @search accumulator
    versioned,      \* @versioned accumulator
    not_versioned,  \* @not_versioned accumulator
    pc,             \* "munch", "done" (types emitted) or "error" (rejected)
    types,          \* the generated types, NoTypes until emitted
    builder,        \* the builder value under construction, or NoBuilder
    lastCall,       \* the last builder call made
    called,         \* the optional fields / slots whose setter succeeded
    ncalls,         \* number of setter calls made
    login_details,  \* the LoginDetails the caller logs in with
    api,            \* the AuthenticatedApi the caller holds, or NoApi
    state,          \* the ResumeState the caller keeps to resume, or NoState
    details,        \* the Details value the caller is building, or NoDetails
    running,        \* the public operation in progress, or the last one run
    calls,          \* the requests sent by that operation, in order; for the
                    \* login flow the calls of auth_callback as well
    outcome,        \* what that operation gave the caller, or NoOutcome
    tasks,          \* the operations running at once on one shared client
    macro           \* the settings macro being expanded, or NoMacro

accs == <<create_new, create, update_new, update, search, versioned, not_versioned>>
expansion == <<schema, rest, accs, pc, types>>
building == <<builder, lastCall, called, ncalls>>
client == <<login_details, api, state, details, running, calls, outcome>>
aside == <<tasks, macro>>
vars == <<expansion, building, client, aside>>

NoType == [kind |-> "absent"]
NoTypes == [generated |-> FALSE]
NoBuilder == [kind |-> "none"]
NoCall == [op |-> "none"]

\* the client half of the state while the bindings are expanded: nothing is
\* logged in, nothing runs
NoLoginDetails == [server |-> "none"]
NoApi == [kind |-> "none"]
NoState == [kind |-> "none"]
NoDetails == [entity |-> "none"]
NoResponse == [t |-> "none"]
NoInput == [kind |-> "none"]
NoOutcome == [kind |-> "none"]
NotRunning ==
    [op |-> "none", at |-> "done", response |-> NoResponse, api |-> NoApi,
     input |-> NoInput]

NoMacro ==
    [macro |-> "none", callback |-> "none", todo |-> <<>>, out |-> <<>>]

NoAside ==
    /\ tasks = <<>>
    /\ macro = NoMacro

NoClient ==
    /\ api = NoApi
    /\ state = NoState
    /\ details = NoDetails
    /\ running = NotRunning
    /\ calls = <<>>
    /\ outcome = NoOutcome

\* ------------------------------------------------------------- entry arm
\* `$( ($field : $type) [$($tags)*] )*` after seven empty accumulators
Items(s) == [i \in 1..Len(s) |-> [field |-> i, tags |-> s[i]]]

Init ==
    /\ IsSchema(schema)
    /\ rest = Items(schema)
    /\ create_new = <<>>
    /\ create = <<>>
    /\ update_new = <<>>
    /\ update = <<>>
    /\ search = <<>>
    /\ versioned = <<>>
    /\ not_versioned = <<>>
    /\ pc = "munch"
    /\ types = NoTypes
    /\ builder = NoBuilder
    /\ lastCall = NoCall
    /\ called = {}
    /\ ncalls = 0
    /\ login_details = NoLoginDetails
    /\ NoClient
    /\ NoAside

\* ----------------------------------------------------------- muncher arms
\* `$current:tt [<tag> $($($tags:tt)+)?] $($rest:tt)*` matches
Matches(tag) ==
    /\ pc = "munch"
    /\ rest # <<>>
    /\ Head(rest).tags # <<>>
    /\ Head(Head(rest).tags) = tag

\* faulty variant: the tags after the first one are thrown away
ReemitDroppingTags(r) == Tail(r)

\* `$($current [$($tags)+])? $($rest)*`: the item comes back with the tags
\* after the first one, or not at all when none is left
Reemit(r) ==
    IF Len(Head(r).tags) > 1
    THEN <<[field |-> Head(r).field, tags |-> Tail(Head(r).tags)]>> \o Tail(r)
    ELSE Tail(r)

\* faulty variant: the field is put in front of the accumulator
PushFront(acc, r) == <<Head(r).field>> \o acc

\* `( $($acc)* $current )`
Push(acc, r) == Append(acc, Head(r).field)

\* faulty variant: create(required) lands in the @create accumulator
CreateNewArmIntoCreate ==
    /\ Matches(CreateRequired)
    /\ create' = Push(create, rest)
    /\ rest' = Reemit(rest)
    /\ UNCHANGED <<schema, create_new, update_new, update, search, versioned,
                   not_versioned, pc, types, building, client, aside>>

CreateNewArm ==
    /\ Matches(CreateRequired)
    /\ create_new' = Push(create_new, rest)
    /\ rest' = Reemit(rest)
    /\ UNCHANGED <<schema, create, update_new, update, search, versioned,
                   not_versioned, pc, types, building, client, aside>>

CreateArm ==
    /\ Matches(CreateOptional)
    /\ create' = Push(create, rest)
    /\ rest' = Reemit(rest)
    /\ UNCHANGED <<schema, create_new, update_new, update, search, versioned,
                   not_versioned, pc, types, building, client, aside>>

UpdateNewArm ==
    /\ Matches(UpdateRequired)
    /\ update_new' = Push(update_new, rest)
    /\ rest' = Reemit(rest)
    /\ UNCHANGED <<schema, create_new, create, update, search, versioned,
                   not_versioned, pc, types, building, client, aside>>

UpdateArm ==
    /\ Matches(UpdateOptional)
    /\ update' = Push(update, rest)
    /\ rest' = Reemit(rest)
    /\ UNCHANGED <<schema, create_new, create, update_new, search, versioned,
                   not_versioned, pc, types, building, client, aside>>

SearchArm ==
    /\ Matches(SearchTag)
    /\ search' = Push(search, rest)
    /\ rest' = Reemit(rest)
    /\ UNCHANGED <<schema, create_new, create, update_new, update, versioned,
                   not_versioned, pc, types, building, client, aside>>

VersionedArm ==
    /\ Matches(VersionedTrue)
    /\ versioned' = Push(versioned, rest)
    /\ rest' = Reemit(rest)
    /\ UNCHANGED <<schema, create_new, create, update_new, update, search,
                   not_versioned, pc, types, building, client, aside>>

NotVersionedArm ==
    /\ Matches(VersionedFalse)
    /\ not_versioned' = Push(not_versioned, rest)
    /\ rest' = Reemit(rest)
    /\ UNCHANGED <<schema, create_new, create, update_new, update, search,
                   versioned, pc, types, building, client, aside>>

\* `$current:tt [] $($rest:tt)*`: the item is dropped, no accumulator changes
NothingArm ==
    /\ pc = "munch"
    /\ rest # <<>>
    /\ Head(rest).tags = <<>>
    /\ rest' = Tail(rest)
    /\ UNCHANGED <<schema, accs, pc, types, building, client, aside>>

\* faulty variant: a catch-all arm that skips a tag it does not know
SkipUnknownTag ==
    /\ pc = "munch"
    /\ rest # <<>>
    /\ Head(rest).tags # <<>>
    /\ Head(Head(rest).tags) \notin KnownTags
    /\ rest' = Reemit(rest)
    /\ UNCHANGED <<schema, accs, pc, types, building, client, aside>>

\* No arm matches an item whose first tag is none of the seven: macro_rules
\* reports "no rules expected the token" and the expansion is abandoned.
NoRuleExpected ==
    /\ pc = "munch"
    /\ rest # <<>>
    /\ Head(rest).tags # <<>>
    /\ Head(Head(rest).tags) \notin KnownTags
    /\ pc' = "error"
    /\ UNCHANGED <<schema, rest, accs, types, building, client, aside>>

\* ----------------------------------------------------------- terminal arm
\* The terminal arm matches only when no item is left.
NothingLeft == pc = "munch" /\ rest = <<>>

\* `$( struct [<Create $name>] { $($cn_field ..)+ $($c_field ..)+ } .. )?`:
\* the optional group is driven by both the @create_new and the @create
\* match; macro_rules transcribes it only when the two repeat the same
\* number of times (both matched, or both empty) and rejects the expansion
\* otherwise ("meta-variable repeats N times, but ... repeats M times").
Repeats(acc) == IF acc = <<>> THEN 0 ELSE 1

CreateGroupInLockstep == Repeats(create_new) = Repeats(create)

DuplicateFree(s) == \A i, j \in 1..Len(s) : s[i] = s[j] => i = j

\* a struct (and a parameter list) may name a field only once
StructsWellFormed ==
    /\ DuplicateFree(not_versioned)
    /\ DuplicateFree(versioned)
    /\ DuplicateFree(create_new \o create)
    /\ DuplicateFree(search)
    /\ DuplicateFree(update_new \o update)

\* struct $name { $($n_field,)* #[serde(flatten)] versioned: Versioned$name }
EntityType(nv) == [kind |-> "entity", fields |-> nv, flatten |-> "versioned"]

\* struct [<Versioned $name>] { $($v_field,)* }
VersionedType(v) == [kind |-> "versioned", fields |-> v]

\* faulty variant: the optional fields are left out of the Create struct
CreateTypeWithoutOptional(cn, c) ==
    IF cn = <<>> /\ c = <<>> THEN NoType
    ELSE [kind |-> "builder", new |-> cn, opt |-> <<>>]

\* struct [<Create $name>] with `new($($cn_field,)*)` and one setter per
\* $c_field; emitted inside `$( .. )?`, so not at all when both are empty
CreateType(cn, c) ==
    IF cn = <<>> /\ c = <<>> THEN NoType
    ELSE [kind |-> "builder", new |-> cn, opt |-> c]

\* faulty variant: the Search struct is emitted unconditionally
SearchTypeAlways(se) == [kind |-> "search", slots |-> se]

\* struct [<$name Search>] with one Option<Criteria> slot per $se_field;
\* emitted inside `$( .. $( .. )+ )?`, so not at all without a search field
SearchType(se) ==
    IF se = <<>> THEN NoType ELSE [kind |-> "search", slots |-> se]

\* struct [<Update $name>]: emitted unconditionally (`*` repetitions)
UpdateType(un, u) == [kind |-> "builder", new |-> un, opt |-> u]

TerminalArm ==
    /\ NothingLeft
    /\ CreateGroupInLockstep
    /\ StructsWellFormed
    /\ pc' = "done"
    /\ types' = [generated |-> TRUE,
                 Entity |-> EntityType(not_versioned),
                 Versioned |-> VersionedType(versioned),
                 Create |-> CreateType(create_new, create),
                 Search |-> SearchType(search),
                 Update |-> UpdateType(update_new, update)]
    /\ UNCHANGED <<schema, rest, accs, building, client, aside>>

\* the terminal arm matched but its transcription is rejected
TerminalArmRejected ==
    /\ NothingLeft
    /\ ~(CreateGroupInLockstep /\ StructsWellFormed)
    /\ pc' = "error"
    /\ UNCHANGED <<schema, rest, accs, types, building, client, aside>>

\* ----------------------------------------------------- generated builders
Values == {"v1", "v2"}

\* Option<T>
None == <<>>
Some(v) == <<v>>

IndexOf(s, f) == CHOOSE i \in 1..Len(s) : s[i] = f

\* the types exist and no builder value has been constructed yet
CanConstruct == pc = "done" /\ builder = NoBuilder

\* the types exist; the model follows a builder through MaxCalls setters
CanSet == pc = "done" /\ ncalls < MaxCalls

\* fn new($($cn_field: $cn_type,)*) -> Self { Self { $($cn_field,)* $($c_field: None,)* } }
NewBuilder(kind, ty, args) ==
    [kind |-> kind,
     req |-> [f \in Range(ty.new) |-> args[IndexOf(ty.new, f)]],
     opt |-> [f \in Range(ty.opt) |-> None]]

\* faulty variant: the setter starts again from an empty builder
WithSomeOnly(b, f, v) ==
    [b EXCEPT !.opt = [g \in DOMAIN b.opt |-> IF g = f THEN Some(v) ELSE None]]

\* fn $c_field(self, $c_field: $c_type) -> Self { Self { $c_field: Some($c_field), ..self } }
WithSome(b, f, v) == [b EXCEPT !.opt[f] = Some(v)]

CreateNew ==
    /\ CanConstruct
    /\ types.Create.kind = "builder"
    /\ \E args \in [1..Len(types.Create.new) -> Values] :
          /\ builder' = NewBuilder("Create", types.Create, args)
          /\ lastCall' = [op |-> "new", type |-> "Create", args |-> args]
    /\ called' = {}
    /\ ncalls' = ncalls
    /\ UNCHANGED <<expansion, client, aside>>

CreateSetter ==
    /\ CanSet
    /\ builder.kind = "Create"
    /\ \E f \in Range(types.Create.opt), v \in Values :
          /\ builder' = WithSome(builder, f, v)
          /\ lastCall' = [op |-> "set", type |-> "Create", field |-> f, value |-> v]
          /\ called' = called \cup {f}
    /\ ncalls' = ncalls + 1
    /\ UNCHANGED <<expansion, client, aside>>

UpdateNew ==
    /\ CanConstruct
    /\ types.Update.kind = "builder"
    /\ \E args \in [1..Len(types.Update.new) -> Values] :
          /\ builder' = NewBuilder("Update", types.Update, args)
          /\ lastCall' = [op |-> "new", type |-> "Update", args |-> args]
    /\ called' = {}
    /\ ncalls' = ncalls
    /\ UNCHANGED <<expansion, client, aside>>

UpdateSetter ==
    /\ CanSet
    /\ builder.kind = "Update"
    /\ \E f \in Range(types.Update.opt), v \in Values :
          /\ builder' = WithSome(builder, f, v)
          /\ lastCall' = [op |-> "set", type |-> "Update", field |-> f, value |-> v]
          /\ called' = called \cup {f}
    /\ ncalls' = ncalls + 1
    /\ UNCHANGED <<expansion, client, aside>>

\* ------------------------------------------------------- search criteria
\* enum QueryKind
QueryKinds ==
    {"Exact", "Equals", "NotEqual", "LessThan", "GreaterThan",
     "LessOrEqual", "GreaterOrEqual"}

\* The values a SearchQuery<$se_type> may hold: a plain value, the None of
\* an Option-typed field (Share.expires is Option<u64> and searchable), and
\* a value whose Serialize implementation fails.
Unserializable == "unserializable"
NoneValue == "None"
SearchValues == {"v1", NoneValue, Unserializable}

Queries == [value : SearchValues, query : QueryKinds]

\* the queries given to the and_<field> setters: the exact match and one
\* comparison
SetterQueries == {q \in Queries : q.query \in {"Exact", "LessOrEqual"}}

\* serde_json::Value
JsonNull == [t |-> "null"]
JsonScalar(v) == [t |-> "scalar", v |-> v]
JsonArray(items) == [t |-> "array", items |-> items]

\* serde_json::to_value(&self.value)
ToValue(v) ==
    IF v = Unserializable THEN [ok |-> FALSE]
    ELSE IF v = NoneValue THEN [ok |-> TRUE, value |-> JsonNull]
    ELSE [ok |-> TRUE, value |-> JsonScalar(v)]

\* enum Criteria { Value(Value), Search(&'static str, Value) }
CriteriaValue(j) == [variant |-> "Value", value |-> j]
CriteriaSearch(op, j) == [variant |-> "Search", op |-> op, value |-> j]

Operator(kind) ==
    CASE kind = "Equals" -> "eq"
      [] kind = "NotEqual" -> "ne"
      [] kind = "LessThan" -> "lt"
      [] kind = "GreaterThan" -> "gt"
      [] kind = "LessOrEqual" -> "le"
      [] kind = "GreaterOrEqual" -> "ge"

\* SearchQuery::to_criteria
ToCriteria(q) ==
    LET value == ToValue(q.value) IN
    IF ~value.ok THEN [ok |-> FALSE]
    ELSE [ok |-> TRUE,
          criteria |-> IF q.query = "Exact" THEN CriteriaValue(value.value)
                       ELSE CriteriaSearch(Operator(q.query), value.value)]

\* #[derive(Serialize)] #[serde(untagged)] enum Criteria: the newtype variant
\* is written as its content, the two-field tuple variant as a two-element
\* sequence
SerializeCriteria(c) ==
    IF c.variant = "Value" THEN c.value
    ELSE JsonArray(<<JsonScalar(c.op), c.value>>)

\* #[derive(Default)]: every Option<Criteria> slot is None
DefaultSearch(ty) ==
    [kind |-> "Search", req |-> <<>>, opt |-> [f \in Range(ty.slots) |-> None]]

\* faulty variant: the skip_serializing_if attribute is missing
NeverSkipSerializing(slot) == FALSE

\* #[derive(Serialize)] with skip_serializing_if = "Option::is_none" on
\* every slot: the object has an entry for the slots that are Some
SkipSerializing(slot) == slot = None

\* Option<Criteria>: None is written as null, Some(c) as c
SerializeSlot(slot) ==
    IF slot = None THEN JsonNull ELSE SerializeCriteria(slot[1])

SerializeSearch(b) ==
    [f \in {g \in DOMAIN b.opt : ~SkipSerializing(b.opt[g])} |->
        SerializeSlot(b.opt[f])]

SearchNew ==
    /\ CanConstruct
    /\ types.Search.kind = "search"
    /\ builder' = DefaultSearch(types.Search)
    /\ lastCall' = [op |-> "new", type |-> "Search"]
    /\ called' = {}
    /\ ncalls' = ncalls
    /\ UNCHANGED <<expansion, client, aside>>

\* fn and_$se_field(self, query) -> Result<Self, Error>
\*     { Ok(Self { $se_field: Some(query.to_criteria()?), ..self }) }
AndField ==
    /\ CanSet
    /\ builder.kind = "Search"
    /\ \E f \in Range(types.Search.slots), q \in SetterQueries :
          LET c == ToCriteria(q) IN
          /\ lastCall' = [op |-> "and", type |-> "Search", field |-> f,
                          query |-> q, ok |-> c.ok]
          /\ IF c.ok
             THEN /\ builder' = WithSome(builder, f, c.criteria)
                  /\ called' = called \cup {f}
             ELSE /\ builder' = NoBuilder
                  /\ called' = {}
    /\ ncalls' = ncalls + 1
    /\ UNCHANGED <<expansion, client, aside>>

Next ==
    \/ CreateNewArm
    \/ CreateArm
    \/ UpdateNewArm
    \/ UpdateArm
    \/ SearchArm
    \/ VersionedArm
    \/ NotVersionedArm
    \/ NothingArm
    \/ NoRuleExpected
    \/ TerminalArm
    \/ TerminalArmRejected
    \/ CreateNew
    \/ CreateSetter
    \/ UpdateNew
    \/ UpdateSetter
    \/ SearchNew
    \/ AndField

Spec == Init /\ [][Next]_vars

\* ================================================================ client
\* The library at run time (src/src/lib.rs): the caller logs in, holds an
\* AuthenticatedApi, calls entity operations on it, keeps a ResumeState,
\* resumes and disconnects.  Every wire call is a request the operation
\* appends to `calls`, a response the server (or the network) gives, and
\* the step of the operation that handles that response.

MaxSeconds == 1     \* session lifetimes and whole seconds elapsed
MaxTasks == 2       \* operations running at once on one client
MaxPolls == 2       \* polls sent by one login flow

\* ------------------------------------------------------- status codes
OK == 200           \* the poll answer that carries the login details
NOT_FOUND == 404    \* the poll answer of a login not yet granted

\* ---------------------------------------------------------------- values
\* url::Url values a caller may give as server: the host alone (its path is
\* always "/") and a sub-directory installation written with and without a
\* trailing slash
Servers ==
    {[stem |-> "https://cloud.example", slash |-> TRUE],
     [stem |-> "https://cloud.example/nc", slash |-> TRUE],
     [stem |-> "https://cloud.example/nc", slash |-> FALSE]}

\* `{}` applied to a Url: its serialization
Display(u) == IF u.slash THEN u.stem \o "/" ELSE u.stem

LoginDetails ==
    [server : Servers, login_name : {"alice"}, app_password : {"app-password"}]

\* the values of the X-API-SESSION header
SessionIds == {"s1", "s2"}

\* the readings of the system clock (SystemTime::now), in half seconds
Times == 0..(2 * MaxSeconds + 2)

\* shutdown_time.elapsed() when the clock reads now: the Duration since
\* shutdown_time, its sub-second part in half seconds, or the error of the
\* clock being earlier than shutdown_time
Elapsed(shutdown_time, now) ==
    IF now < shutdown_time THEN [ok |-> FALSE]
    ELSE [ok |-> TRUE,
          secs |-> (now - shutdown_time) \div 2,
          subsec_nanos |-> (now - shutdown_time) % 2]

\* Duration::as_secs: the whole seconds, the fraction dropped
as_secs(d) == d.secs

\* enum Error
ApiError == [variant |-> "ApiError"]
ConnectionFailed == [variant |-> "ConnectionFailed"]
DisconnectionFailed == [variant |-> "DisconnectionFailed"]
TimeError == [variant |-> "TimeError"]
Serde == [variant |-> "Serde"]
EndpointError(e) == [variant |-> "EndpointError", error |-> e]

\* what a public operation gives its caller: Result::Ok, Result::Err, or a
\* panic unwinding out of the operation
Ok(v) == [kind |-> "Ok", value |-> v]
Err(e) == [kind |-> "Err", error |-> e]
Panic(message) == [kind |-> "panic", message |-> message]

\* ------------------------------------------------------------- requests
Unit == [kind |-> "unit"]
NoBody == [kind |-> "none"]

\* faulty variant: the session header is left out
reqwest_without_session(a, endpoint, method, data) ==
    [method |-> method,
     url |-> a.passwords_url \o "/" \o endpoint,
     session |-> None,
     login |-> a.login,
     password |-> Some(a.password),
     body |-> data]

\* AuthenticatedApi::reqwest: the request sent for an endpoint
reqwest(a, endpoint, method, data) ==
    [method |-> method,
     url |-> a.passwords_url \o "/" \o endpoint,
     session |-> Some(a.session_id),
     login |-> a.login,
     password |-> Some(a.password),
     body |-> data]

passwords_get(a, endpoint, data) == reqwest(a, endpoint, "GET", data)
passwords_post(a, endpoint, data) == reqwest(a, endpoint, "POST", data)
passwords_delete(a, endpoint, data) == reqwest(a, endpoint, "DELETE", data)
passwords_patch(a, endpoint, data) == reqwest(a, endpoint, "PATCH", data)

\* ------------------------------------------------------------ responses
\* struct EndpointError { status, id, message }
EndpointErrors == {[status |-> "error", id |-> 1, message |-> "m"]}

\* What comes back for a request made through reqwest(): send() fails,
\* reading the text fails, or a body arrives.  A body is described by what
\* the deserializers make of it: json says whether it is JSON at all, error
\* is the EndpointError it deserializes to (None when it does not), success
\* the value of the expected type it deserializes to (None when it does
\* not).  A body can have both readings.
PasswordsResponses(payloads) ==
    {[t |-> "send_failed"], [t |-> "read_failed"],
     [t |-> "body", json |-> FALSE, error |-> None, success |-> None]}
        \cup [t : {"body"}, json : {TRUE},
              error : {None} \cup {Some(e) : e \in EndpointErrors},
              success : {None} \cup {Some(p) : p \in payloads}]

\* struct Keepalive { success }, struct CloseSession { success }
Successes == [success : BOOLEAN]

\* struct Settings, of which the field asked for matters: every field is an
\* Option, absent from the response or present
SettingsPayloads ==
    {[session_lifetime |-> None]}
        \cup {[session_lifetime |-> Some(k)] : k \in 0..MaxSeconds}

\* the entities, identifiers and lists the entity operations return
EntityPayloads == {[entity |-> "value"]}

\* What comes back for the session/open request: send() fails, or a
\* response arrives with or without an X-API-SESSION header, whose value is
\* ASCII or not, and with a body that decodes as OpenSession or does not.
HeaderValues ==
    {[ascii |-> FALSE]} \cup [ascii : {TRUE}, text : SessionIds]

OpenResponses ==
    {[t |-> "send_failed"]}
        \cup [t : {"response"},
              header : {None} \cup {Some(h) : h \in HeaderValues},
              body : {None} \cup {Some(s) : s \in Successes}]

\* the status codes the two endpoints answer with
Statuses == {OK, 201, NOT_FOUND, 500}

\* StatusCode::is_success
is_success(status) == status \in 200..299

LoginFlowError(code) == [variant |-> "LoginFlowError", code |-> code]

\* struct PollRequest { poll: Poll { token, endpoint }, login }
PollRequests ==
    [poll : [token : {"token"},
             endpoint : {"https://cloud.example/login/v2/poll"}],
     login : {"https://cloud.example/login/v2/flow",
              "https://cloud.example/login/v2/grant"}]

LoginResponses ==
    {[t |-> "send_failed"]}
        \cup [t : {"response"}, status : Statuses,
              body : {None} \cup {Some(p) : p \in PollRequests}]

PollResponses ==
    {[t |-> "send_failed"]}
        \cup [t : {"response"}, status : Statuses,
              body : {None} \cup {Some(ld) : ld \in LoginDetails}]

ResponsesAt(at) ==
    CASE at = "open" -> OpenResponses
      [] at \in {"lifetime", "settings"} -> PasswordsResponses(SettingsPayloads)
      [] at \in {"keepalive", "close"} -> PasswordsResponses(Successes)
      [] at \in {"entity", "service", "bytes"} ->
            PasswordsResponses(EntityPayloads)
      [] at = "login" -> LoginResponses
      [] at = "poll" -> PollResponses

\* #[serde(untagged)] enum EndpointResponse<T> { Error(EndpointError),
\* Success(T) } read by serde_json::from_str: the variants are tried in
\* declaration order, the first that deserializes wins
EndpointResponse(r) ==
    IF ~r.json THEN [ok |-> FALSE]
    ELSE IF r.error # None THEN [ok |-> TRUE, variant |-> "Error", value |-> r.error[1]]
    ELSE IF r.success # None THEN [ok |-> TRUE, variant |-> "Success", value |-> r.success[1]]
    ELSE [ok |-> FALSE]

\* AuthenticatedApi::passwords_request, from the response on
passwords_request(r) ==
    IF r.t = "send_failed" THEN Err(ApiError)
    ELSE IF r.t = "read_failed" THEN Err(ApiError)
    ELSE LET resp == EndpointResponse(r) IN
         IF ~resp.ok THEN Err(Serde)
         ELSE IF resp.variant = "Success" THEN Ok(resp.value)
         ELSE Err(EndpointError(resp.value))

\* --------------------------------------------------------------- details
Entities == {"tag", "folder", "password", "share"}

\* the flags of each create_details! struct, in declaration order
Flags(e) ==
    CASE e = "tag" -> <<"revisions", "passwords">>
      [] e = "folder" -> <<"revisions", "folders", "passwords", "tags">>
      [] e = "password" -> <<"revisions", "folder", "tags", "shares">>
      [] e = "share" -> <<"password">>

\* #[derive(Default)]: every flag false
DefaultDetails(e) ==
    [entity |-> e, flags |-> [f \in Range(Flags(e)) |-> FALSE]]

\* faulty variant: every flag is written, set or not
RECURSIVE AppendEveryFlag(_, _, _)
AppendEveryFlag(d, names, s) ==
    IF names = <<>> THEN s
    ELSE AppendEveryFlag(d, Tail(names), s \o "+" \o Head(names))

\* the `$( if self.$name { s += concat!("+", stringify!($name)); } )*` of
\* to_string, from the flags still to visit and the string so far
RECURSIVE AppendFlags(_, _, _)
AppendFlags(d, names, s) ==
    IF names = <<>> THEN s
    ELSE AppendFlags(d, Tail(names),
                     IF d.flags[Head(names)] THEN s \o "+" \o Head(names)
                     ELSE s)

\* faulty variant: to_string writes every flag
ToStringEveryFlag(d) == AppendEveryFlag(d, Flags(d.entity), "model")

\* Details::to_string
to_string(d) == AppendFlags(d, Flags(d.entity), "model")

\* a public operation may start: none is in progress
CanStart == running.at = "done"

Run(op, at, input) ==
    [op |-> op, at |-> at, response |-> NoResponse, api |-> NoApi,
     input |-> input]

\* Details::new(); the caller takes the state of its client when its entity
\* work is done, and works again once it has resumed from that state
DetailsNew ==
    /\ CanStart
    /\ api # NoApi
    /\ state = NoState
    /\ details = NoDetails
    /\ \E e \in Entities : details' = DefaultDetails(e)
    /\ running' = NotRunning
    /\ calls' = <<>>
    /\ outcome' = NoOutcome
    /\ UNCHANGED <<expansion, building, aside, login_details, api, state>>

\* pub fn $name(self) -> Self { Self { $name: true, ..self } }
DetailsFlag ==
    /\ CanStart
    /\ details # NoDetails
    /\ \E f \in DOMAIN details.flags :
          details' = [details EXCEPT !.flags[f] = TRUE]
    /\ UNCHANGED <<expansion, building, aside, login_details, api, state, running,
                   calls, outcome>>

\* ----------------------------------------------------- entity operations
\* the operations each sub-client offers
Operations(e) ==
    IF e = "share"
    THEN {"list", "get", "find", "create", "update", "delete"}
    ELSE {"list", "get", "find", "create", "update", "delete", "restore"}

\* FolderApi and PasswordApi take `details: Details` in list and find, and
\* unwrap_or_else(Default::default) the Option<Details> of get; TagApi and
\* ShareApi take Option<Details> and map it
DetailsRequired(e, op) ==
    e \in {"folder", "password"} /\ op \in {"list", "find"}

DetailsStr(e, op, d) ==
    IF e \in {"folder", "password"}
    THEN Some(to_string(IF d = NoDetails THEN DefaultDetails(e) ELSE d))
    ELSE IF d = NoDetails THEN None ELSE Some(to_string(d))

\* the payload of an entity request: the details string, absent when None,
\* next to the identifier or criteria; or the value created, updated,
\* deleted or restored
Data(e, op, d) ==
    IF op \in {"list", "get", "find"}
    THEN [kind |-> op, details |-> DetailsStr(e, op, d)]
    ELSE [kind |-> op]

\* the endpoint string each operation passes on
Endpoint(e, op) ==
    CASE op = "list" -> "1.0/" \o e \o "/list"
      [] op = "get" -> "1.0/" \o e \o "/show"
      [] op = "find" -> "1.0/" \o e \o "/find"
      [] op = "create" ->
            IF e = "share" THEN "/api/1.0/share/create"
            ELSE "1.0/" \o e \o "/create"
      [] op = "update" ->
            IF e = "share" THEN "/api/1.0/share/update"
            ELSE "1.0/" \o e \o "/update"
      [] op = "delete" ->
            IF e = "share" THEN "/api/1.0/share/delete"
            ELSE "1.0/" \o e \o "/delete"
      [] op = "restore" -> "1.0/" \o e \o "/restore"

\* the request each operation sends
EntityRequest(a, e, op, d) ==
    CASE op \in {"list", "get", "find", "create", "update"} ->
            passwords_post(a, Endpoint(e, op), Data(e, op, d))
      [] op = "delete" ->
            IF e = "share"
            THEN passwords_post(a, Endpoint(e, op), Data(e, op, d))
            ELSE passwords_delete(a, Endpoint(e, op), Data(e, op, d))
      [] op = "restore" ->
            passwords_patch(a, Endpoint(e, op), Data(e, op, d))

\* api.tag()/folder()/password()/share() . list/get/find/create/update/
\* delete/restore, up to the request being sent
EntityCall ==
    /\ CanStart
    /\ api # NoApi
    /\ state = NoState
    /\ \E e \in Entities : \E op \in Operations(e) :
          /\ details # NoDetails =>
                details.entity = e /\ op \in {"list", "get", "find"}
          /\ DetailsRequired(e, op) => details # NoDetails
          /\ running' = Run("entity", "entity",
                            [entity |-> e, operation |-> op,
                             details |-> details])
          /\ calls' = <<EntityRequest(api, e, op, details)>>
    /\ details' = NoDetails
    /\ outcome' = NoOutcome
    /\ UNCHANGED <<expansion, building, aside, login_details, api, state>>

\* the server, or the network, answers the request in flight
Respond ==
    /\ running.at # "done"
    /\ running.response = NoResponse
    /\ \E r \in ResponsesAt(running.at) :
          running' = [running EXCEPT !.response = r]
    /\ UNCHANGED <<expansion, building, aside, login_details, api, state, details,
                   calls, outcome>>

Answered(at) == running.at = at /\ running.response # NoResponse

\* faulty variant: a request that failed is sent once more before the
\* operation returns
ReturnAfterRetry(o, a) ==
    /\ running' = [running EXCEPT !.at = "done"]
    /\ outcome' = o
    /\ api' = a
    /\ calls' = IF o.kind = "Err" /\ calls # <<>>
                THEN Append(calls, calls[Len(calls)]) ELSE calls

\* the operation returns o to its caller, who holds a from then on
Return(o, a) ==
    /\ running' = [running EXCEPT !.at = "done"]
    /\ outcome' = o
    /\ api' = a
    /\ calls' = calls

\* the entity operation returns what passwords_request gives
EntityReturn ==
    /\ Answered("entity")
    /\ Return(passwords_request(running.response), api)
    /\ UNCHANGED <<expansion, building, aside, login_details, state, details>>

\* -------------------------------------------------------------- settings
Names(names) == [kind |-> "names", names |-> names]

\* SettingsFetcher::session_lifetime / SettingReset::session_lifetime, from
\* the response on: `?` on the request, expect() on the field
session_lifetime(r) ==
    LET data == passwords_request(r) IN
    IF data.kind = "Err" THEN data
    ELSE IF data.value.session_lifetime = None
         THEN Panic("server did not provide the asked setting")
         ELSE Ok([session_lifetime |-> data.value.session_lifetime[1]])

\* api.settings().get().session_lifetime(), up to the request being sent
SettingsGet ==
    /\ CanStart
    /\ api # NoApi
    /\ details = NoDetails
    /\ running' = Run("settings_get", "settings", NoInput)
    /\ calls' = <<passwords_post(api, "1.0/settings/get",
                                 Names(<<"user.session.lifetime">>))>>
    /\ outcome' = NoOutcome
    /\ UNCHANGED <<expansion, building, aside, login_details, api, state, details>>

\* api.settings().reset().session_lifetime(), up to the request being sent
SettingsReset ==
    /\ CanStart
    /\ api # NoApi
    /\ details = NoDetails
    /\ running' = Run("settings_reset", "settings", NoInput)
    /\ calls' = <<passwords_post(api, "1.0/settings/reset",
                                 Names(<<"user.session.lifetime">>))>>
    /\ outcome' = NoOutcome
    /\ UNCHANGED <<expansion, building, aside, login_details, api, state, details>>

SettingsReturn ==
    /\ Answered("settings")
    /\ Return(session_lifetime(running.response), api)
    /\ UNCHANGED <<expansion, building, aside, login_details, state, details>>

\* ---------------------------------------------------------------- service
\* the operations of ServiceApi, avatar standing for the three image
\* endpoints, and the one of TokenApi
ServiceOperations ==
    {"generate_password_with_user_settings", "generate_password", "avatar",
     "token_request"}

\* the request each of them sends; the user, size, provider and settings
\* given by the caller are fixed
ServiceRequest(a, op) ==
    CASE op = "generate_password_with_user_settings" ->
            passwords_get(a, "1.0/service/password", Unit)
      [] op = "generate_password" ->
            passwords_post(a, "1.0/service/password",
                           [kind |-> "GeneratePassword"])
      [] op = "avatar" ->
            reqwest(a, "1.0/service/avatar/" \o "user" \o "/" \o "32",
                    "GET", Unit)
      [] op = "token_request" ->
            passwords_get(a, "1.0/token/" \o "email" \o "/request", Unit)

\* bytes_request from the response on: `?` on the request, the body as it
\* is when it could be read
bytes_request(r) ==
    IF r.t \in {"send_failed", "read_failed"} THEN Err(ApiError)
    ELSE Ok([kind |-> "bytes", body |-> r])

\* api.service().<operation>(..) and TokenApi::request, up to the request
\* being sent
ServiceCall ==
    /\ CanStart
    /\ api # NoApi
    /\ state = NoState
    /\ details = NoDetails
    /\ \E op \in ServiceOperations :
          /\ running' = Run("service",
                            IF op = "avatar" THEN "bytes" ELSE "service",
                            [operation |-> op])
          /\ calls' = <<ServiceRequest(api, op)>>
    /\ outcome' = NoOutcome
    /\ UNCHANGED <<expansion, building, aside, login_details, api, state, details>>

ServiceReturn ==
    /\ Answered("service") \/ Answered("bytes")
    /\ Return(IF running.at = "bytes" THEN bytes_request(running.response)
              ELSE passwords_request(running.response), api)
    /\ UNCHANGED <<expansion, building, aside, login_details, state, details>>

\* --------------------------------------------------------------- sessions
\* format!("{}index.php/apps/passwords/api/", login_details.server)
PasswordsUrl(server) == Display(server) \o "index.php/apps/passwords/api/"

\* client.request(POST, format!("{}/1.0/session/open", passwords_url))
\*     .basic_auth(login_name, Some(app_password))
OpenRequest(ld) ==
    [method |-> "POST",
     url |-> PasswordsUrl(ld.server) \o "/1.0/session/open",
     session |-> None,
     login |-> ld.login_name,
     password |-> Some(ld.app_password),
     body |-> NoBody]

\* new_session up to its first await: the session/open request is sent
OpenSession(op, input) ==
    /\ running' = Run(op, "open", input)
    /\ calls' = <<OpenRequest(input.login_details)>>
    /\ outcome' = NoOutcome
    /\ UNCHANGED <<api>>

\* AuthenticatedApi::new_session(login_details)
NewSession ==
    /\ CanStart
    /\ details = NoDetails
    /\ OpenSession("new_session", [login_details |-> login_details])
    /\ UNCHANGED <<expansion, building, aside, login_details, state, details>>

\* new_session from the session/open response to the settings request:
\* `?` on send(), expect() on the header and on its to_str(), `?` on
\* json(), ConnectionFailed unless success, then the AuthenticatedApi with
\* keepalive 0 asks for the session lifetime
NewSessionOpened ==
    /\ Answered("open")
    /\ LET r == running.response
           ld == running.input.login_details
       IN
       IF r.t = "send_failed" THEN Return(Err(ApiError), api)
       ELSE IF r.header = None
            THEN Return(Panic("no api session header"), api)
       ELSE IF ~r.header[1].ascii
            THEN Return(Panic("api session is not ascii"), api)
       ELSE IF r.body = None THEN Return(Err(ApiError), api)
       ELSE IF ~r.body[1].success THEN Return(Err(ConnectionFailed), api)
       ELSE LET a == [server_url |-> ld.server,
                      passwords_url |-> PasswordsUrl(ld.server),
                      session_id |-> r.header[1].text,
                      keepalive |-> 0,
                      login |-> ld.login_name,
                      password |-> ld.app_password]
            IN
            /\ running' = [running EXCEPT !.at = "lifetime",
                                          !.response = NoResponse,
                                          !.api = a]
            /\ calls' = Append(calls,
                               passwords_post(a, "1.0/settings/get",
                                   Names(<<"user.session.lifetime">>)))
            /\ UNCHANGED <<api, outcome>>
    /\ UNCHANGED <<expansion, building, aside, login_details, state, details>>

\* new_session from the settings response on:
\* api.keepalive = api.settings().get().session_lifetime().await?;
\* Ok((api, session_id))
NewSessionLifetime ==
    /\ Answered("lifetime")
    /\ LET lifetime == session_lifetime(running.response) IN
       IF lifetime.kind # "Ok" THEN Return(lifetime, api)
       ELSE LET a == [running.api EXCEPT
                         !.keepalive = lifetime.value.session_lifetime]
            IN Return(Ok([api |-> a, session_id |-> a.session_id]), a)
    /\ UNCHANGED <<expansion, building, aside, login_details, state, details>>

\* faulty variant: the keepalive interval is not carried over
get_state_without_keepalive(a, now) ==
    [server_url |-> a.server_url,
     password_url |-> a.passwords_url,
     keepalive |-> 0,
     session_id |-> a.session_id,
     login |-> a.login,
     password |-> a.password,
     shutdown_time |-> now]

\* AuthenticatedApi::get_state(&self) when the clock reads now
get_state(a, now) ==
    [server_url |-> a.server_url,
     password_url |-> a.passwords_url,
     keepalive |-> a.keepalive,
     session_id |-> a.session_id,
     login |-> a.login,
     password |-> a.password,
     shutdown_time |-> now]

\* the caller takes the state of the client it holds
GetState ==
    /\ CanStart
    /\ api # NoApi
    /\ details = NoDetails
    /\ \E now \in Times : state' = get_state(api, now)
    /\ running' = Run("get_state", "done", NoInput)
    /\ calls' = <<>>
    /\ outcome' = Ok(state')
    /\ UNCHANGED <<expansion, building, aside, login_details, api, details>>

\* faulty variant: a session is expired from the very second its lifetime
\* is reached
ExpiredOnTheSecond(elapsed, keepalive) == as_secs(elapsed) >= keepalive

\* resume_state.shutdown_time.elapsed()?.as_secs() > resume_state.keepalive
Expired(elapsed, keepalive) == as_secs(elapsed) > keepalive

\* AuthenticatedApi::resume_session(resume_state) up to its first await: the
\* state is moved into the call;
\* TimeError when elapsed() fails, new_session with the stored server and
\* credentials when the session is expired, else the AuthenticatedApi is
\* rebuilt from the state and session/keepalive is requested
ResumeSession ==
    /\ CanStart
    /\ details = NoDetails
    /\ state # NoState
    /\ \E now \in Times :
          LET elapsed == Elapsed(state.shutdown_time, now)
              input == [resume_state |-> state, elapsed |-> elapsed,
                        login_details |->
                            [server |-> state.server_url,
                             login_name |-> state.login,
                             app_password |-> state.password]]
          IN
          IF ~elapsed.ok
          THEN /\ running' = Run("resume_session", "done", input)
               /\ calls' = <<>>
               /\ outcome' = Err(TimeError)
               /\ UNCHANGED api
          ELSE IF Expired(elapsed, state.keepalive)
          THEN OpenSession("resume_session", input)
          ELSE LET a == [server_url |-> state.server_url,
                         passwords_url |-> state.password_url,
                         session_id |-> state.session_id,
                         keepalive |-> state.keepalive,
                         login |-> state.login,
                         password |-> state.password]
               IN
               /\ running' = [Run("resume_session", "keepalive", input)
                                 EXCEPT !.api = a]
               /\ calls' = <<passwords_get(a, "1.0/session/keepalive", Unit)>>
               /\ outcome' = NoOutcome
               /\ UNCHANGED api
    /\ state' = NoState
    /\ UNCHANGED <<expansion, building, aside, login_details, details>>

\* faulty variant: success is not looked at
KeptAliveUnchecked(a, r) ==
    LET s == passwords_request(r) IN
    IF s.kind = "Err" THEN s
    ELSE Ok([api |-> a, session_id |-> a.session_id])

\* resume_session from the keepalive response on:
\* let s: Keepalive = api.passwords_get(..).await?; assert!(s.success);
\* Ok((api, session_id))
KeptAlive(a, r) ==
    LET s == passwords_request(r) IN
    IF s.kind = "Err" THEN s
    ELSE IF ~s.value.success THEN Panic("assertion failed: s.success")
    ELSE Ok([api |-> a, session_id |-> a.session_id])

ResumeSessionKeptAlive ==
    /\ Answered("keepalive")
    /\ LET o == KeptAlive(running.api, running.response) IN
       Return(o, IF o.kind = "Ok" THEN o.value.api ELSE api)
    /\ UNCHANGED <<expansion, building, aside, login_details, state, details>>

\* AuthenticatedApi::disconnect(self) up to its await: the api is moved
\* into the call
Disconnect ==
    /\ CanStart
    /\ api # NoApi
    /\ details = NoDetails
    /\ running' = [Run("disconnect", "close", NoInput) EXCEPT !.api = api]
    /\ calls' = <<passwords_get(api, "1.0/session/close", Unit)>>
    /\ outcome' = NoOutcome
    /\ api' = NoApi
    /\ UNCHANGED <<expansion, building, aside, login_details, state, details>>

\* faulty variant: the success flag of the close is not looked at
ClosedQuietly(r) ==
    LET s == passwords_request(r) IN
    IF s.kind = "Err"
    THEN Panic("called Result::unwrap() on an Err value")
    ELSE Ok(Unit)

\* disconnect from the close response on: unwrap() on the request,
\* DisconnectionFailed unless success
Closed(r) ==
    LET s == passwords_request(r) IN
    IF s.kind = "Err"
    THEN Panic("called Result::unwrap() on an Err value")
    ELSE IF ~s.value.success THEN Err(DisconnectionFailed)
    ELSE Ok(Unit)

DisconnectClosed ==
    /\ Answered("close")
    /\ Return(Closed(running.response), api)
    /\ UNCHANGED <<expansion, building, aside, login_details, state, details>>

\* the bindings are expanded at compile time: at run time the expansion of
\* the empty declaration stands for them
ClientInit ==
    /\ schema = <<>>
    /\ rest = <<>>
    /\ create_new = <<>>
    /\ create = <<>>
    /\ update_new = <<>>
    /\ update = <<>>
    /\ search = <<>>
    /\ versioned = <<>>
    /\ not_versioned = <<>>
    /\ pc = "munch"
    /\ types = NoTypes
    /\ builder = NoBuilder
    /\ lastCall = NoCall
    /\ called = {}
    /\ ncalls = 0
    /\ login_details \in LoginDetails
    /\ NoClient
    /\ NoAside

ClientNext ==
    \/ NewSession
    \/ NewSessionOpened
    \/ NewSessionLifetime
    \/ GetState
    \/ ResumeSession
    \/ ResumeSessionKeptAlive
    \/ Disconnect
    \/ DisconnectClosed
    \/ SettingsGet
    \/ SettingsReset
    \/ SettingsReturn
    \/ ServiceCall
    \/ ServiceReturn
    \/ DetailsNew
    \/ DetailsFlag
    \/ EntityCall
    \/ EntityReturn
    \/ Respond

ClientSpec == ClientInit /\ [][ClientNext]_vars

\* ------------------------------------------------------ concurrent calls
\* the bindings are expanded at compile time: at run time the expansion of
\* the empty declaration stands for them
EmptyDeclaration ==
    /\ schema = <<>>
    /\ rest = <<>>
    /\ create_new = <<>>
    /\ create = <<>>
    /\ update_new = <<>>
    /\ update = <<>>
    /\ search = <<>>
    /\ versioned = <<>>
    /\ not_versioned = <<>>
    /\ pc = "munch"
    /\ types = NoTypes
    /\ builder = NoBuilder
    /\ lastCall = NoCall
    /\ called = {}
    /\ ncalls = 0

\* the futures that borrow one AuthenticatedApi and are polled in any order
Tasks == 1..MaxTasks

Idle == [op |-> "none", at |-> "idle", request |-> NoBody]

\* one operation of each kind that takes &self and sends a request
TaskOperations == {"tag_list", "settings_get", "avatar", "token_request"}

TaskRequest(a, op) ==
    CASE op = "tag_list" -> EntityRequest(a, "tag", "list", NoDetails)
      [] op = "settings_get" ->
            passwords_post(a, "1.0/settings/get",
                           Names(<<"user.session.lifetime">>))
      [] op \in {"avatar", "token_request"} -> ServiceRequest(a, op)

TaskAt(op) ==
    CASE op = "tag_list" -> "entity"
      [] op = "settings_get" -> "settings"
      [] op = "avatar" -> "bytes"
      [] op = "token_request" -> "service"

TaskResult(op, r) ==
    CASE op = "settings_get" -> session_lifetime(r)
      [] op = "avatar" -> bytes_request(r)
      [] op \in {"tag_list", "token_request"} -> passwords_request(r)

\* faulty variant: the session lifetime an operation read is stored in the
\* client it was called on
KeepaliveStored(a, o) ==
    IF o.kind = "Ok" /\ "session_lifetime" \in DOMAIN o.value
    THEN [a EXCEPT !.keepalive = o.value.session_lifetime]
    ELSE a

\* the client after an operation that was called on it through &self gave
\* o: no field of AuthenticatedApi can be written through a shared reference
ThroughSharedRef(a, o) == a

\* the clients new_session can give for the login details
SessionsOf(ld) ==
    [server_url : {ld.server},
     passwords_url : {PasswordsUrl(ld.server)},
     session_id : SessionIds,
     keepalive : 0..MaxSeconds,
     login : {ld.login_name},
     password : {ld.app_password}]

\* task t calls an operation on the shared client: the request is sent
TaskCall(t) ==
    /\ tasks[t].at = "idle"
    /\ \E op \in TaskOperations :
          tasks' = [tasks EXCEPT ![t] = [op |-> op, at |-> "sent",
                                         request |-> TaskRequest(api, op)]]
    /\ UNCHANGED <<expansion, building, client, macro>>

\* the request of task t is answered and its operation returns
TaskReturn(t) ==
    /\ tasks[t].at = "sent"
    /\ \E r \in ResponsesAt(TaskAt(tasks[t].op)) :
          LET o == TaskResult(tasks[t].op, r) IN
          /\ outcome' = o
          /\ api' = ThroughSharedRef(api, o)
    /\ tasks' = [tasks EXCEPT ![t] = Idle]
    /\ UNCHANGED <<expansion, building, macro, login_details, state, details,
                   running, calls>>

\* task t takes the state of the shared client
TaskGetState(t) ==
    /\ tasks[t].at = "idle"
    /\ \E now \in Times : state' = get_state(api, now)
    /\ outcome' = Ok(state')
    /\ api' = ThroughSharedRef(api, outcome')
    /\ UNCHANGED <<expansion, building, aside, login_details, details,
                   running, calls>>

ConcurrentInit ==
    /\ EmptyDeclaration
    /\ login_details \in LoginDetails
    /\ api \in SessionsOf(login_details)
    /\ state = NoState
    /\ details = NoDetails
    /\ running = NotRunning
    /\ calls = <<>>
    /\ outcome = NoOutcome
    /\ tasks = [t \in Tasks |-> Idle]
    /\ macro = NoMacro

ConcurrentNext ==
    \E t \in Tasks :
        \/ TaskCall(t)
        \/ TaskReturn(t)
        \/ TaskGetState(t)

ConcurrentSpec == ConcurrentInit /\ [][ConcurrentNext]_vars

\* ------------------------------------------------------------ login flow
\* client.post(&format!("{}index.php/login/v2", server))
LoginRequest(server) ==
    [method |-> "POST", url |-> Display(server) \o "index.php/login/v2"]

\* client.post(resp.poll.endpoint.as_str()).form(&token)
PollOf(p) ==
    [method |-> "POST", url |-> p.poll.endpoint,
     form |-> [token |-> p.poll.token]]

\* auth_callback(url), as an entry of the list of what the flow did
auth_callback(url) == [method |-> "auth_callback", url |-> url]

\* faulty variant: the first poll is sent before the callback is called
PollThenCallback(p) == <<PollOf(p), auth_callback(p.login)>>

\* from the PollRequest to the first await of the loop: the callback is
\* called with resp.login, then the first poll is sent
CallbackThenPoll(p) == <<auth_callback(p.login), PollOf(p)>>

\* faulty variant: every status but 200 is taken for "not ready"
PolledRetryingOnAny(r) ==
    IF r.t = "send_failed" THEN [return |-> TRUE, outcome |-> Err(ApiError)]
    ELSE IF r.status = OK
    THEN [return |-> TRUE,
          outcome |-> IF r.body = None THEN Err(ApiError) ELSE Ok(r.body[1])]
    ELSE [return |-> FALSE]

\* the loop body from the answer of a poll on: `?` on send(), the match on
\* the status, `?` on json()
Polled(r) ==
    IF r.t = "send_failed" THEN [return |-> TRUE, outcome |-> Err(ApiError)]
    ELSE IF r.status = NOT_FOUND THEN [return |-> FALSE]
    ELSE IF r.status = OK
    THEN [return |-> TRUE,
          outcome |-> IF r.body = None THEN Err(ApiError) ELSE Ok(r.body[1])]
    ELSE [return |-> TRUE, outcome |-> Err(LoginFlowError(r.status))]

\* LoginDetails::register_login_flow_2(server, auth_callback) up to its
\* first await: the login/v2 request is sent
RegisterLoginFlow ==
    /\ CanStart
    /\ \E server \in Servers :
          /\ running' = Run("register_login_flow_2", "login",
                            [server |-> server, answers |-> <<>>])
          /\ calls' = <<LoginRequest(server)>>
    /\ outcome' = NoOutcome
    /\ UNCHANGED <<expansion, building, aside, login_details, api, state,
                   details>>

\* from the answer of login/v2 to the first poll: `?` on send(),
\* LoginFlowError unless the status is a success, `?` on json(), then the
\* callback and the first poll
LoginFlowStarted ==
    /\ Answered("login")
    /\ LET r == running.response IN
       IF r.t = "send_failed" THEN Return(Err(ApiError), api)
       ELSE IF ~is_success(r.status)
            THEN Return(Err(LoginFlowError(r.status)), api)
       ELSE IF r.body = None THEN Return(Err(ApiError), api)
       ELSE /\ running' = [running EXCEPT
                              !.at = "poll",
                              !.response = NoResponse,
                              !.input = [server |-> running.input.server,
                                         answers |-> <<>>,
                                         resp |-> r.body[1]]]
            /\ calls' = calls \o CallbackThenPoll(r.body[1])
            /\ UNCHANGED <<api, outcome>>
    /\ UNCHANGED <<expansion, building, aside, login_details, state, details>>

\* from the answer of a poll on: the flow returns, or waits to poll again
LoginFlowPolled ==
    /\ Answered("poll")
    /\ LET r == running.response
           answers == Append(running.input.answers,
                             IF r.t = "send_failed" THEN 0 ELSE r.status)
       IN
       IF Polled(r).return
       THEN /\ running' = [running EXCEPT !.at = "done",
                                          !.input.answers = answers]
            /\ outcome' = Polled(r).outcome
            /\ login_details' = IF outcome'.kind = "Ok" THEN outcome'.value
                                ELSE login_details
            /\ UNCHANGED <<api, calls>>
       ELSE /\ running' = [running EXCEPT !.at = "delay",
                                          !.input.answers = answers]
            /\ UNCHANGED <<api, calls, outcome, login_details>>
    /\ UNCHANGED <<expansion, building, aside, state, details>>

\* tokio::time::delay_for(100 ms) is over: the loop sends the next poll
LoginFlowDelayed ==
    /\ running.at = "delay"
    /\ Len(running.input.answers) < MaxPolls
    /\ running' = [running EXCEPT !.at = "poll", !.response = NoResponse]
    /\ calls' = Append(calls, PollOf(running.input.resp))
    /\ UNCHANGED <<expansion, building, aside, login_details, api, state,
                   details, outcome>>

LoginFlowInit ==
    /\ EmptyDeclaration
    /\ login_details = NoLoginDetails
    /\ NoClient
    /\ NoAside

LoginFlowNext ==
    \/ RegisterLoginFlow
    \/ LoginFlowStarted
    \/ LoginFlowPolled
    \/ LoginFlowDelayed
    \/ Respond

\* the future is polled until it is done: once an answer is there, or the
\* delay is over, the flow takes its next step; nothing makes the server
\* answer
LoginFlowSpec ==
    /\ LoginFlowInit
    /\ [][LoginFlowNext]_vars
    /\ WF_vars(LoginFlowStarted)
    /\ WF_vars(LoginFlowPolled)
    /\ WF_vars(LoginFlowDelayed)

\* ------------------------------------------------------- settings macros
\* the `User:` entries of the settings! invocation, in declaration order
UserSettingList ==
    <<
      [variant |-> "PasswordStrength", field |-> "password_strength",
       setting |-> "user.password.generator.strength"],
      [variant |-> "PasswordContainsNumber", field |-> "password_contains_numbers",
       setting |-> "user.password.generator.numbers"],
      [variant |-> "PasswordContainsSpecial", field |-> "password_contains_special",
       setting |-> "user.password.generator.special"],
      [variant |-> "CheckForDuplicates", field |-> "check_for_duplicates",
       setting |-> "user.password.security.duplicates"],
      [variant |-> "CheckForOldPasswords", field |-> "check_for_old_passwords",
       setting |-> "user.password.security.age"],
      [variant |-> "NotifySecurityByMail", field |-> "notify_security_by_mail",
       setting |-> "user.mail.security"],
      [variant |-> "NotifySharesByMail", field |-> "notify_shares_by_mail",
       setting |-> "user.mail.shares"],
      [variant |-> "NotifySecurityByNotification", field |-> "notify_security_by_notification",
       setting |-> "user.notification.security"],
      [variant |-> "NotifySharesByNotification", field |-> "notify_shares_by_notification",
       setting |-> "user.notification.shares"],
      [variant |-> "NotifyErrorsByNotification", field |-> "notifiy_errors_by_notification",
       setting |-> "user.notification.errors"],
      [variant |-> "ServerSideEncryption", field |-> "server_side_encryption",
       setting |-> "user.encryption.sse"],
      [variant |-> "ClientSideEncryption", field |-> "client_side_encryption",
       setting |-> "user.encryption.cse"],
      [variant |-> "SessionLifetime", field |-> "session_lifetime",
       setting |-> "user.session.lifetime"]
    >>

\* its `Server:` entries, in declaration order
ServerSettingList ==
    <<
      [variant |-> "Version", field |-> "version",
       setting |-> "server.version"],
      [variant |-> "BaseUrl", field |-> "base_url",
       setting |-> "server.baseUrl"],
      [variant |-> "BaseUrlWebDav", field |-> "base_url_web_dav",
       setting |-> "server.baseUrl.webdav"],
      [variant |-> "Sharing", field |-> "sharing",
       setting |-> "server.sharing.enabled"],
      [variant |-> "Resharing", field |-> "resharing",
       setting |-> "server.sharing.resharing"],
      [variant |-> "AutoComplete", field |-> "autocomplete",
       setting |-> "server.sharing.autocomplete"],
      [variant |-> "SharingTypes", field |-> "sharing_types",
       setting |-> "server.sharing.types"],
      [variant |-> "PrimaryColor", field |-> "primary_color",
       setting |-> "server.theme.color.primary"],
      [variant |-> "TextColor", field |-> "text_color",
       setting |-> "server.theme.color.text"],
      [variant |-> "BackgroundColor", field |-> "background_color",
       setting |-> "server.theme.color.background"],
      [variant |-> "BackgroundTheme", field |-> "background_theme",
       setting |-> "server.theme.background"],
      [variant |-> "Logo", field |-> "logo",
       setting |-> "server.theme.logo"],
      [variant |-> "Label", field |-> "label",
       setting |-> "server.theme.label"],
      [variant |-> "AppIcon", field |-> "app_icon",
       setting |-> "server.theme.app.icon"],
      [variant |-> "FolderIcon", field |-> "folder_icon",
       setting |-> "server.theme.folder.icon"]
    >>

\* the three macros settings! defines, and the callbacks they are given
SettingsMacros ==
    {"macro_on_settings", "macro_on_user_settings",
     "macro_on_server_settings"}

MacroCallbacks == {"callback_a", "callback_b", "callback_c"}

\* the settings the repetitions of each macro run over, as its body is
\* written
Repetitions(m) ==
    CASE m = "macro_on_settings" -> UserSettingList \o ServerSettingList
      [] m = "macro_on_user_settings" -> UserSettingList
      [] m = "macro_on_server_settings" -> UserSettingList

\* one of the macros is invoked with a callback
MacroInvoked ==
    /\ macro.todo = <<>>
    /\ \E m \in SettingsMacros : \E callback \in MacroCallbacks :
          macro' = [macro |-> m, callback |-> callback,
                    todo |-> Repetitions(m), out |-> <<>>]
    /\ UNCHANGED <<expansion, building, client, tasks>>

\* one repetition is transcribed:
\* $callback!($variant; $type; $field; $setting => $($args)*);
MacroTranscribed ==
    /\ macro.todo # <<>>
    /\ macro' = [macro EXCEPT
                    !.todo = Tail(macro.todo),
                    !.out = Append(macro.out,
                                   [callback |-> macro.callback,
                                    args |-> Head(macro.todo)])]
    /\ UNCHANGED <<expansion, building, client, tasks>>

SettingsInit ==
    /\ EmptyDeclaration
    /\ login_details = NoLoginDetails
    /\ NoClient
    /\ NoAside

SettingsNext ==
    \/ MacroInvoked
    \/ MacroTranscribed

SettingsSpec == SettingsInit /\ [][SettingsNext]_vars

\* ------------------------------------------------------- entity encoding
\* the values of struct $name: one value per $n_field, and the versioned
\* block with one value per $v_field
EntityValues(ts) ==
    [direct : [Range(ts.Entity.fields) -> Values],
     versioned : [Range(ts.Versioned.fields) -> Values]]

\* Serialize of struct $name: one map, the entries of the direct fields in
\* declaration order, then, for #[serde(flatten)], the entries of the
\* versioned block written into the same map
Encode(ts, e) ==
    [i \in 1..Len(ts.Entity.fields) |->
        [key |-> ts.Entity.fields[i], value |-> e.direct[ts.Entity.fields[i]]]]
    \o [i \in 1..Len(ts.Versioned.fields) |->
        [key |-> ts.Versioned.fields[i],
         value |-> e.versioned[ts.Versioned.fields[i]]]]

\* Deserialize of struct $name from the entries of one map: an entry whose
\* key is a direct field fills it, a second one is the error "duplicate
\* field"; every other entry is collected for the flattened block, which is
\* then read from the collected entries; a field without entry is the error
\* "missing field"
Decode(ts, entries) ==
    LET direct == Range(ts.Entity.fields)
        At(k) == {i \in 1..Len(entries) : entries[i].key = k}
        collected == {i \in 1..Len(entries) : entries[i].key \notin direct}
        ForBlock(k) == {i \in collected : entries[i].key = k}
    IN
    IF \E k \in direct : Cardinality(At(k)) > 1
    THEN Err(Serde)
    ELSE IF \E k \in direct : At(k) = {}
    THEN Err(Serde)
    ELSE IF \E k \in Range(ts.Versioned.fields) : ForBlock(k) = {}
    THEN Err(Serde)
    ELSE Ok([direct |->
                [k \in direct |-> entries[CHOOSE i \in At(k) : TRUE].value],
             versioned |->
                [k \in Range(ts.Versioned.fields) |->
                    entries[CHOOSE i \in ForBlock(k) : TRUE].value]])

\* ================================================================ claims
Fields == 1..Len(schema)

HasTag(i, t) == t \in Range(schema[i])

In(acc, i) == i \in Range(acc)

Count(tl, T) == Cardinality({k \in 1..Len(tl) : tl[k] \in T})

\* the muncher has consumed every item of the declaration
Munched == rest = <<>>

\* the fields carrying `tag`, in declaration order, once per occurrence
RECURSIVE TaggedFrom(_, _)
TaggedFrom(i, tag) ==
    IF i > Len(schema) THEN <<>>
    ELSE [k \in 1..Count(schema[i], {tag}) |-> i] \o TaggedFrom(i + 1, tag)

Tagged(tag) == TaggedFrom(1, tag)

AccOf(tag) ==
    CASE tag = CreateRequired -> create_new
      [] tag = CreateOptional -> create
      [] tag = UpdateRequired -> update_new
      [] tag = UpdateOptional -> update
      [] tag = SearchTag -> search
      [] tag = VersionedTrue -> versioned
      [] tag = VersionedFalse -> not_versioned

AtMostOneModeEach ==
    \A i \in Fields :
        /\ Count(schema[i], {CreateRequired, CreateOptional}) <= 1
        /\ Count(schema[i], {UpdateRequired, UpdateOptional}) <= 1

\* C1: in a processed schema whose fields carry at most one create tag and
\* at most one update tag, a create(required) field is in create-required
\* and not in create-optional, a create(optional) field is in
\* create-optional and not in create-required, a field without create tag is
\* in neither; likewise for update(required)/update(optional).
C1_ModePartition ==
    (Munched /\ AtMostOneModeEach) =>
        \A i \in Fields :
            /\ HasTag(i, CreateRequired) => In(create_new, i) /\ ~In(create, i)
            /\ HasTag(i, CreateOptional) => In(create, i) /\ ~In(create_new, i)
            /\ (~HasTag(i, CreateRequired) /\ ~HasTag(i, CreateOptional))
                  => ~In(create_new, i) /\ ~In(create, i)
            /\ HasTag(i, UpdateRequired) => In(update_new, i) /\ ~In(update, i)
            /\ HasTag(i, UpdateOptional) => In(update, i) /\ ~In(update_new, i)
            /\ (~HasTag(i, UpdateRequired) /\ ~HasTag(i, UpdateOptional))
                  => ~In(update_new, i) /\ ~In(update, i)

C1_Witness ==
    /\ pc = "done"
    /\ AtMostOneModeEach
    /\ \E i, j \in Fields :
          /\ i # j
          /\ schema[i] = <<CreateRequired, UpdateOptional>>
          /\ schema[j] = <<CreateOptional>>

\* C2 (as claimed): every field not tagged versioned(true), the untagged
\* field and the field with only create/update/search tags included, is in
\* the not-versioned set and a direct field of the generated Entity; every
\* field is in exactly one of versioned / not-versioned; an untagged field
\* is in none of the create, update, searchable and versioned sets.
C2_DefaultNotVersioned ==
    Munched =>
        \A i \in Fields :
            /\ ~HasTag(i, VersionedTrue) => In(not_versioned, i)
            /\ (~HasTag(i, VersionedTrue) /\ pc = "done")
                  => In(types.Entity.fields, i)
            /\ In(versioned, i) # In(not_versioned, i)
            /\ schema[i] = <<>> =>
                  \A acc \in {create_new, create, update_new, update,
                              search, versioned} : ~In(acc, i)

\* C3: in every one of the seven sets the fields stand in declaration order,
\* and the sets are a function of the schema alone: each is the list of the
\* fields carrying its tag, in declaration order.
C3_DeclarationOrder ==
    /\ \A tag \in KnownTags :
          \A a, b \in 1..Len(AccOf(tag)) :
              a < b => AccOf(tag)[a] <= AccOf(tag)[b]
    /\ Munched => \A tag \in KnownTags : AccOf(tag) = Tagged(tag)

C3_Witness ==
    /\ pc = "done"
    /\ Len(schema) = 2
    /\ update = <<1, 2>>
    /\ versioned = <<2>>

\* C4: membership depends on the tags a field carries, not on the order they
\* are written in: once the schema is processed a field is in the set of a
\* tag exactly when it carries that tag.
C4_OrderOfTagsIrrelevant ==
    Munched =>
        \A i \in Fields : \A tag \in KnownTags :
            In(AccOf(tag), i) <=> HasTag(i, tag)

C4_Witness ==
    /\ Munched
    /\ \E i \in Fields :
          /\ schema[i] = <<SearchTag, CreateRequired, VersionedTrue>>
          /\ In(versioned, i) /\ In(create_new, i) /\ In(search, i)
          /\ ~In(create, i) /\ ~In(update, i) /\ ~In(update_new, i)

HasUnknownTag == \E i \in Fields : \E t \in Range(schema[i]) : t \notin KnownTags

NoSearchField == \A i \in Fields : ~HasTag(i, SearchTag)

HasCreateField ==
    \E i \in Fields : HasTag(i, CreateRequired) \/ HasTag(i, CreateOptional)

\* every tag is known and no field repeats a tag or carries both modes
WellTagged ==
    /\ ~HasUnknownTag
    /\ AtMostOneModeEach
    /\ \A i \in Fields : \A t \in KnownTags : Count(schema[i], {t}) <= 1

\* C7 (as claimed): every schema with at least one create field, also when
\* its create-optional or its create-required set is empty, gets a
\* CreateEntity whose new takes exactly the create-required fields in
\* declaration order and returns them set to the arguments with every
\* create-optional field None; same for UpdateEntity.
C7_NewTakesRequired ==
    (Munched /\ pc # "munch" /\ WellTagged /\ HasCreateField) =>
        /\ pc = "done"
        /\ types.Create.kind = "builder"
        /\ types.Create.new = Tagged(CreateRequired)
        /\ types.Update.new = Tagged(UpdateRequired)
        /\ lastCall.op = "new" /\ lastCall.type \in {"Create", "Update"} =>
              LET ty == IF lastCall.type = "Create" THEN types.Create
                        ELSE types.Update
              IN /\ builder.kind = lastCall.type
                 /\ DOMAIN builder.req = Range(ty.new)
                 /\ \A k \in 1..Len(ty.new) :
                       builder.req[ty.new[k]] = lastCall.args[k]
                 /\ \A f \in DOMAIN builder.opt : builder.opt[f] = None

CreateFields ==
    {i \in Fields : HasTag(i, CreateRequired) \/ HasTag(i, CreateOptional)}

UpdateFields ==
    {i \in Fields : HasTag(i, UpdateRequired) \/ HasTag(i, UpdateOptional)}

\* C8: CreateEntity has a field for exactly the create(required) and
\* create(optional) fields, UpdateEntity for exactly the update(required)
\* and update(optional) fields, and so have the builder values made of them.
C8_BuilderFields ==
    pc = "done" =>
        /\ types.Create.kind = "builder" =>
              Range(types.Create.new) \cup Range(types.Create.opt) = CreateFields
        /\ Range(types.Update.new) \cup Range(types.Update.opt) = UpdateFields
        /\ builder.kind = "Create" =>
              DOMAIN builder.req \cup DOMAIN builder.opt = CreateFields
        /\ builder.kind = "Update" =>
              DOMAIN builder.req \cup DOMAIN builder.opt = UpdateFields

C8_Witness ==
    /\ pc = "done"
    /\ schema = <<<<CreateRequired, UpdateOptional>>, <<CreateOptional>>>>
    /\ Range(types.Create.new) \cup Range(types.Create.opt) = {1, 2}
    /\ builder.kind = "Update"
    /\ DOMAIN builder.req = {}
    /\ DOMAIN builder.opt = {1}

\* the step is a setter call of a Create or Update builder
SetterCalled ==
    /\ ncalls' = ncalls + 1
    /\ lastCall'.op = "set"

\* C9: a setter call f(v) on a builder b returns b with f = Some(v) and
\* nothing else changed; so the last value given to a field wins, and
\* setters of distinct fields commute.
C9_SetterFrame ==
    [][SetterCalled =>
        /\ builder'.kind = builder.kind
        /\ builder'.req = builder.req
        /\ DOMAIN builder'.opt = DOMAIN builder.opt
        /\ builder'.opt[lastCall'.field] = Some(lastCall'.value)
        /\ \A g \in DOMAIN builder.opt :
              g # lastCall'.field => builder'.opt[g] = builder.opt[g]
        /\ \A g \in DOMAIN builder.opt, w \in Values :
              g # lastCall'.field =>
                 WithSome(builder', g, w)
                    = WithSome(WithSome(builder, g, w),
                               lastCall'.field, lastCall'.value)]_vars

C9_Witness ==
    /\ lastCall.op = "set"
    /\ builder.kind = "Update"
    /\ \E f, g \in DOMAIN builder.opt :
          /\ f # g
          /\ lastCall.field = f
          /\ builder.opt[f] = Some("v1")
          /\ builder.opt[g] = Some("v2")

Serialized == SerializeSearch(builder)

\* C10 (as claimed): the serialized criteria have a key for exactly the
\* slots whose setter was called, and no key has a null value.
C10_NoNullValue ==
    builder.kind = "Search" =>
        /\ DOMAIN Serialized = called
        /\ \A f \in DOMAIN Serialized : Serialized[f] # JsonNull

\* the step is a successful and_<field> call
AndCalled ==
    /\ ncalls' = ncalls + 1
    /\ lastCall'.op = "and"
    /\ lastCall'.ok

\* C10 (amended): the serialized criteria have a key for exactly the slots
\* whose setter was called; a slot never set yields no key; a key is null
\* only for a slot set with an Exact query on a value that itself
\* serializes to null; new() alone serializes to the empty object; and_<f>
\* changes the slot f only.
C10_ExactlyTheSetSlots ==
    /\ [](builder.kind = "Search" =>
            /\ DOMAIN Serialized = called
            /\ \A f \in DOMAIN builder.opt :
                  builder.opt[f] = None => f \notin DOMAIN Serialized
            /\ \A f \in DOMAIN Serialized :
                  Serialized[f] = JsonNull
                     => builder.opt[f] = Some(CriteriaValue(JsonNull))
            /\ lastCall.op = "new" => Serialized = <<>>)
    /\ [][AndCalled =>
            /\ \A g \in DOMAIN builder.opt :
                  g # lastCall'.field => builder'.opt[g] = builder.opt[g]
            /\ lastCall'.field \in DOMAIN SerializeSearch(builder')
            /\ SerializeSearch(builder')[lastCall'.field] = JsonNull
                  <=> (lastCall'.query.query = "Exact"
                       /\ lastCall'.query.value = NoneValue)]_vars

C10_Witness ==
    /\ builder.kind = "Search"
    /\ Cardinality(DOMAIN builder.opt) = 2
    /\ Cardinality(called) = 1
    /\ \E f \in called : Serialized[f] = JsonNull

\* the one-key object {key: value}
JsonObject(key, value) == [t |-> "object", key |-> key, value |-> value]

\* C11 (as claimed): after a successful and_<field>(query) the entry of
\* that field in the serialized criteria is the bare value when the query is
\* Exact and the one-key object {op: value}, op being eq, ne, lt, gt, le or
\* ge, when the query is a comparison.
C11_ComparisonIsOneKeyObject ==
    (builder.kind = "Search" /\ lastCall.op = "and" /\ lastCall.ok) =>
        LET value == ToValue(lastCall.query.value).value IN
        Serialized[lastCall.field] =
            IF lastCall.query.query = "Exact" THEN value
            ELSE JsonObject(Operator(lastCall.query.query), value)

\* ------------------------------------------------------- claims, client
RECURSIVE Joined(_)
Joined(strs) == IF strs = <<>> THEN "" ELSE Head(strs) \o Joined(Tail(strs))

\* the flags of d that are true, in declaration order
SetFlags(d) == SelectSeq(Flags(d.entity), LAMBDA f : d.flags[f])

\* "model" followed by "+<flag>" for the flags that are true
ModelPlus(d) ==
    "model" \o Joined([i \in 1..Len(SetFlags(d)) |-> "+" \o SetFlags(d)[i]])

\* the entity operation in progress or last run was given the details d
SentWith(d) ==
    /\ running.op = "entity"
    /\ running.input.operation \in {"list", "get", "find"}
    /\ running.input.details = d

\* C12: to_string of every Details value is "model" followed by "+<flag>"
\* for exactly the flags that are true, in declaration order, and that is
\* the details string sent; Details::new() has every flag false and yields
\* "model"; a flag setter sets its own flag to true and changes no other
\* flag, so calling it twice or in another order gives the same value.
C12_ModelPlusSetFlags ==
    /\ [](/\ details # NoDetails => to_string(details) = ModelPlus(details)
          /\ \A e \in Entities : to_string(DefaultDetails(e)) = "model"
          /\ (running.op = "entity" /\ running.input.details # NoDetails) =>
                calls[1].body.details = Some(ModelPlus(running.input.details)))
    /\ [][/\ (details = NoDetails /\ details' # NoDetails) =>
                /\ \A f \in DOMAIN details'.flags : ~details'.flags[f]
                /\ to_string(details') = "model"
          /\ (details # NoDetails /\ details' # NoDetails) =>
                \E f \in DOMAIN details.flags :
                   /\ details'.flags[f]
                   /\ \A g \in DOMAIN details.flags :
                         g # f => details'.flags[g] = details.flags[g]]_vars

C12_Witness ==
    /\ running.op = "entity"
    /\ running.at = "done"
    /\ running.input.details # NoDetails
    /\ running.input.details.entity = "password"
    /\ calls[1].body.details = Some("model+revisions+tags")

\* the verb and the path suffix the operation table gives each operation
TableVerb(op) ==
    CASE op \in {"list", "get", "find", "create", "update"} -> "POST"
      [] op = "delete" -> "DELETE"
      [] op = "restore" -> "PATCH"

TableSuffix(op) ==
    CASE op = "list" -> "/list"
      [] op = "get" -> "/show"
      [] op = "find" -> "/find"
      [] op = "create" -> "/create"
      [] op = "update" -> "/update"
      [] op = "delete" -> "/delete"
      [] op = "restore" -> "/restore"

\* the request sent by the entity operation in progress or last run
EntitySent == calls[1]

\* C13 (as claimed): whatever the sub-client, the request of an entity
\* operation has the verb of the operation table (list, get, find, create
\* and update POST, delete DELETE, restore PATCH) and a path that ends with
\* the suffix of the table after the path of the entity.
C13_TableVerbAndSuffix ==
    running.op = "entity" =>
        LET e == running.input.entity
            op == running.input.operation
        IN /\ EntitySent.method = TableVerb(op)
           /\ \E path \in {"1.0/" \o e, "/api/1.0/" \o e} :
                 EntitySent.url
                    = api.passwords_url \o "/" \o path \o TableSuffix(op)

\* the text of the server URL, with its trailing slash or without
BaseTexts(server) == {server.stem, Display(server)}

\* C14 (as claimed): the URL of an entity request is, character for
\* character, <base>/index.php/apps/passwords/api/1.0/<entity>/<action>,
\* <base> being the server URL given at login.
C14_UrlCharacterForCharacter ==
    running.op = "entity" =>
        \E base \in BaseTexts(login_details.server) :
            EntitySent.url
               = base \o "/index.php/apps/passwords/api/1.0/"
                      \o running.input.entity
                      \o TableSuffix(running.input.operation)

\* the operation last run has returned, r being the last response it got
Returned(op) == running.op = op /\ running.at = "done"

\* the response is a body of the error shape {status, id, message}
ErrorShaped(r) == r.t = "body" /\ r.json /\ r.error # None

\* C15 (as claimed): an entity operation returns Error::ApiError when the
\* transport failed, Error::EndpointError with the id and message of the
\* body when the body has the error shape, whether or not it also has the
\* success shape, Ok with the value when the body has the success shape
\* only, and Error::Serde for any other body; and no operation at all gives
\* Ok, ApiError or Serde for a body of the error shape.
C15_Classification ==
    /\ Returned("entity") =>
          LET r == running.response IN
          /\ r.t \in {"send_failed", "read_failed"} => outcome = Err(ApiError)
          /\ ErrorShaped(r) =>
                /\ outcome = Err(EndpointError(r.error[1]))
                /\ outcome.error.error.id = r.error[1].id
                /\ outcome.error.error.message = r.error[1].message
          /\ (r.t = "body" /\ r.error = None /\ r.success # None) =>
                outcome = Ok(r.success[1])
          /\ (r.t = "body" /\ r.error = None /\ r.success = None) =>
                outcome = Err(Serde)
    /\ (running.at = "done" /\ ErrorShaped(running.response)) =>
          /\ outcome.kind # "Ok"
          /\ outcome # Err(ApiError)
          /\ outcome # Err(Serde)

\* the response reports a failure: the transport failed or the body has the
\* error shape
FailedResponse(r) ==
    r.t \in {"send_failed", "read_failed"} \/ ErrorShaped(r)

\* C16 (as claimed): whatever the server answers, a public operation
\* (new_session, resume_session, disconnect, settings get and reset, the
\* entity operations) returns to its caller, with Ok or with an Err of the
\* Error type, never by a panic, and with an Err when the response reported
\* a failure.
C16_NoPanic ==
    running.at = "done" =>
        /\ outcome.kind \in {"none", "Ok", "Err"}
        /\ FailedResponse(running.response) => outcome.kind = "Err"

\* the state given to the resume_session in progress or last run
Resumed == running.input.resume_state

\* the duration d is at most, respectively more than, k seconds
Within(d, k) == d.ok /\ (d.secs < k \/ (d.secs = k /\ d.subsec_nanos = 0))
Beyond(d, k) == d.ok /\ (d.secs > k \/ (d.secs = k /\ d.subsec_nanos > 0))

\* the request is a call of session/keepalive, respectively session/open
IsKeepalive(r) == r.url = Resumed.password_url \o "/1.0/session/keepalive"
IsOpen(r, ld) ==
    r.url = Display(ld.server)
               \o "index.php/apps/passwords/api/" \o "/1.0/session/open"

KeepaliveCalls == {i \in 1..Len(calls) : IsKeepalive(calls[i])}
OpenCalls(ld) == {i \in 1..Len(calls) : IsOpen(calls[i], ld)}

\* C17: resume_session with a state whose elapsed time is at most its
\* keepalive interval, the interval itself included, sends exactly one
\* request, the keepalive call with the stored token and credentials, and
\* no session/open call; when it succeeds the client returned has the
\* token, keepalive interval, server URL and credentials of the state and
\* the token returned with it is the stored token.
C17_KeepaliveWithinInterval ==
    (running.op = "resume_session"
        /\ Within(running.input.elapsed, Resumed.keepalive)) =>
        /\ Len(calls) = 1
        /\ KeepaliveCalls = {1}
        /\ OpenCalls(running.input.login_details) = {}
        /\ calls[1].method = "GET"
        /\ calls[1].session = Some(Resumed.session_id)
        /\ calls[1].login = Resumed.login
        /\ calls[1].password = Some(Resumed.password)
        /\ (running.at = "done" /\ outcome.kind = "Ok") =>
              /\ outcome.value.session_id = Resumed.session_id
              /\ outcome.value.api = api
              /\ api.session_id = Resumed.session_id
              /\ api.keepalive = Resumed.keepalive
              /\ api.server_url = Resumed.server_url
              /\ api.passwords_url = Resumed.password_url
              /\ api.login = Resumed.login
              /\ api.password = Resumed.password

C17_Witness ==
    /\ Returned("resume_session")
    /\ Resumed.keepalive > 0
    /\ running.input.elapsed.ok
    /\ running.input.elapsed.secs = Resumed.keepalive
    /\ running.input.elapsed.subsec_nanos = 0
    /\ outcome.kind = "Ok"
    /\ Len(calls) = 1

\* C18 (as claimed): resume_session with a state whose elapsed time is more
\* than its keepalive interval sends no keepalive call and opens a session
\* with the server URL, login and password of the state; when it succeeds
\* the token returned is the one of the client that session open gave.
C18_ReauthenticateBeyondInterval ==
    (running.op = "resume_session"
        /\ Beyond(running.input.elapsed, Resumed.keepalive)) =>
        LET ld == [server |-> Resumed.server_url,
                   login_name |-> Resumed.login,
                   app_password |-> Resumed.password]
        IN /\ KeepaliveCalls = {}
           /\ calls[1] = OpenRequest(ld)
           /\ (running.at = "done" /\ outcome.kind = "Ok") =>
                 outcome.value.session_id = api.session_id

\* C19 (as claimed): a new_session that does not succeed, whatever the step
\* that failed, gives the caller Error::ConnectionFailed and no client, and
\* has opened a session once.
C19_ConnectionFailedOnAnyFailure ==
    (Returned("new_session") /\ outcome.kind # "Ok") =>
        /\ outcome = Err(ConnectionFailed)
        /\ Cardinality(OpenCalls(running.input.login_details)) = 1

\* the keepalive call was sent and its response reports a failure: a body
\* of the error shape, or success = false
KeepaliveFailed ==
    /\ running.op = "resume_session"
    /\ running.response # NoResponse
    /\ KeepaliveCalls # {}
    /\ LET r == running.response IN
       \/ ErrorShaped(r)
       \/ /\ r.t = "body"
          /\ r.error = None
          /\ r.success # None
          /\ ~r.success[1].success

\* C20: when the keepalive call of resume_session reports a failure,
\* resume_session does not give Ok, hence no client: the failure reaches
\* the caller, as the Err of the call or as the panic of assert!; the
\* keepalive call was sent once, no session is opened, and the client the
\* caller holds is left as it was.
C20_KeepaliveFailureIsFinal ==
    /\ []((KeepaliveFailed /\ running.at = "done") =>
            /\ outcome.kind \in {"Err", "panic"}
            /\ Len(calls) = 1
            /\ KeepaliveCalls = {1}
            /\ OpenCalls(running.input.login_details) = {})
    /\ [][(KeepaliveFailed /\ running.at = "keepalive") =>
            /\ running'.at = "done"
            /\ api' = api
            /\ calls' = calls]_vars

C20_Witness ==
    /\ KeepaliveFailed
    /\ running.at = "done"
    /\ ~ErrorShaped(running.response)
    /\ outcome.kind = "panic"
    /\ api # NoApi
    /\ api.session_id # Resumed.session_id

\* the close was answered with a well-formed body whose success is false
CloseRejected(r) ==
    r.t = "body" /\ r.json /\ r.error = None /\ r.success # None
        /\ ~r.success[1].success

\* the close call itself failed: transport, error body or undecodable body
CloseFailed(r) == r # NoResponse /\ passwords_request(r).kind = "Err"

\* C21: disconnect sends one request, the session/close call of the client
\* it is called on, and takes the client from the caller in every outcome:
\* from the call on the caller holds no client, a rejected close gives
\* Error::DisconnectionFailed, a failed call never gives Ok, and no operation
\* of a client starts until new_session or resume_session built another one.
C21_DisconnectConsumes ==
    /\ [](running.op = "disconnect" =>
            /\ api = NoApi
            /\ Len(calls) = 1
            /\ calls[1] = passwords_get(running.api, "1.0/session/close", Unit)
            /\ running.at = "done" =>
                  /\ CloseRejected(running.response) =>
                        outcome = Err(DisconnectionFailed)
                  /\ CloseFailed(running.response) =>
                        outcome.kind \in {"Err", "panic"}
                  /\ outcome = Ok(Unit) =>
                        /\ running.response.success # None
                        /\ running.response.success[1].success)
    /\ [][(running.op = "disconnect" /\ running.at = "done") =>
             /\ running'.op \in {"disconnect", "none", "new_session",
                                 "resume_session"}
             /\ (api' # NoApi =>
                    running'.op \in {"new_session", "resume_session"})]_vars

C21_Witness ==
    /\ Returned("disconnect")
    /\ CloseRejected(running.response)
    /\ outcome = Err(DisconnectionFailed)
    /\ api = NoApi
    /\ Len(calls) = 1

\* C22: get_state gives a state with the server URL, passwords URL, login,
\* password, session token and keepalive interval of the client, sends
\* nothing and leaves the client as it was; a resume_session from a state
\* within its keepalive interval that gives a client gives one whose state
\* is the state it was resumed from, having sent the keepalive call only:
\* no session is opened with the credentials.
C22_StateRoundTrip ==
    /\ [](Returned("get_state") =>
            /\ outcome = Ok(state)
            /\ calls = <<>>
            /\ state.server_url = api.server_url
            /\ state.password_url = api.passwords_url
            /\ state.login = api.login
            /\ state.password = api.password
            /\ state.session_id = api.session_id
            /\ state.keepalive = api.keepalive)
    /\ [][running'.op = "get_state" => api' = api]_vars
    /\ []((Returned("resume_session")
             /\ Within(running.input.elapsed, Resumed.keepalive)
             /\ outcome.kind = "Ok") =>
            /\ get_state(api, Resumed.shutdown_time) = Resumed
            /\ Len(calls) = 1
            /\ OpenCalls(running.input.login_details) = {})

C22_Witness ==
    /\ Returned("resume_session")
    /\ Within(running.input.elapsed, Resumed.keepalive)
    /\ running.input.elapsed.secs = 1
    /\ outcome.kind = "Ok"
    /\ api.keepalive = 1
    /\ api.session_id = "s2"
    /\ api.server_url.slash = FALSE

\* the AuthenticatedApi the operation in progress, or last run, sends its
\* requests through: the one built or moved into the call, else the one the
\* caller holds
Instance == IF running.api # NoApi THEN running.api ELSE api

\* the i-th request is the session/open call, sent before any
\* AuthenticatedApi is built
IsSessionOpen(i) ==
    /\ running.op \in {"new_session", "resume_session"}
    /\ calls[i] = OpenRequest(running.input.login_details)

\* C23: every request sent through an AuthenticatedApi, by an entity,
\* settings, service or token operation, by the keepalive of resume_session,
\* by the settings call of new_session or by the close of disconnect,
\* carries the session token of that instance in X-API-SESSION and its
\* login and password as basic auth.
C23_SessionHeaderAndBasicAuth ==
    \A i \in 1..Len(calls) :
        ~IsSessionOpen(i) =>
            /\ Instance # NoApi
            /\ calls[i].session = Some(Instance.session_id)
            /\ calls[i].login = Instance.login
            /\ calls[i].password = Some(Instance.password)

C23_Witness ==
    /\ Returned("service")
    /\ running.input.operation = "avatar"
    /\ api.session_id = "s2"
    /\ calls = <<[method |-> "GET",
                  url |-> api.passwords_url \o "/1.0/service/avatar/user/32",
                  session |-> Some("s2"),
                  login |-> "alice",
                  password |-> Some("app-password"),
                  body |-> Unit]>>

\* C24: a call of an entity operation sends exactly one request, the one of
\* the operation, whatever the answer: from the request to the return, and
\* after a return with ApiError, EndpointError or Serde as well as with Ok,
\* no request was added and none sent again.
C24_OneRequestPerCall ==
    /\ [](running.op = "entity" =>
            /\ Len(calls) = 1
            /\ calls[1] = EntityRequest(api, running.input.entity,
                                        running.input.operation,
                                        running.input.details))
    /\ [][(running.op = "entity" /\ running.at = "entity") =>
             /\ calls' = calls
             /\ running'.op = "entity"
             /\ running.response # NoResponse => running'.at = "done"]_vars

C24_Witness ==
    /\ Returned("entity")
    /\ running.response.t = "send_failed"
    /\ outcome = Err(ApiError)
    /\ Len(calls) = 1

\* C25 (as claimed): for every value of a generated Entity, decoding its
\* encoded form gives the value back, equal in every field, and the encoded
\* form is one flat object: every direct field and every versioned field is
\* a key of it, once, and no key stands for the versioned block.
C25_EntityRoundTrip ==
    pc = "done" =>
        \A e \in EntityValues(types) :
            LET entries == Encode(types, e) IN
            /\ Decode(types, entries) = Ok(e)
            /\ \A f \in Range(types.Entity.fields)
                        \cup Range(types.Versioned.fields) :
                  Cardinality({i \in 1..Len(entries) :
                                  entries[i].key = f}) = 1
            /\ \A i \in 1..Len(entries) : entries[i].key \in 1..Len(schema)

\* C26 (as claimed): every ResumeState taken from a client carries as its
\* timestamp the time t at which the session of the client was last opened
\* or refreshed; hence two states taken one after the other from a client,
\* no session having been opened or refreshed in between, carry the same
\* timestamp t, whatever the clock reads when they are taken.
C26_TimestampIsLastRefresh ==
    [][(Returned("get_state") /\ running'.op = "get_state" /\ api' = api) =>
          state'.shutdown_time = state.shutdown_time]_vars

\* the tasks whose operation is in progress
InFlight == {t \in Tasks : tasks[t].at = "sent"}

\* C27: whatever the order in which operations called at once on one
\* AuthenticatedApi (entity, settings, service, token, get_state) are
\* started and return, no step changes the session token, keepalive
\* interval, server URL, passwords URL or credentials of that client; every
\* request in flight carries its token, and every state taken holds its
\* fields. Another token is only ever in another client value.
C27_SharedClientUnchanged ==
    /\ [](\A t \in InFlight :
            /\ tasks[t].request.session = Some(api.session_id)
            /\ tasks[t].request.login = api.login
            /\ tasks[t].request.password = Some(api.password))
    /\ [](state # NoState =>
            \E now \in Times : state = get_state(api, now))
    /\ [][/\ api'.session_id = api.session_id
          /\ api'.keepalive = api.keepalive
          /\ api'.server_url = api.server_url
          /\ api'.passwords_url = api.passwords_url
          /\ api'.login = api.login
          /\ api'.password = api.password]_vars

C27_Witness ==
    /\ Cardinality(InFlight) > 1
    /\ \E t \in InFlight : tasks[t].op = "settings_get"
    /\ outcome.kind = "Ok"
    /\ "session_lifetime" \in DOMAIN outcome.value
    /\ outcome.value.session_lifetime # api.keepalive
    /\ state # NoState

\* the login flow in progress or last run
InFlow == running.op = "register_login_flow_2"

\* login/v2 was answered with a success status and a PollRequest
FlowStarted == InFlow /\ "resp" \in DOMAIN running.input

\* the positions, in what the flow did, of the polls and of the callbacks
Polls == {i \in 2..Len(calls) : calls[i].method = "POST"}
Callbacks == {i \in 1..Len(calls) : calls[i].method = "auth_callback"}

\* C28: every poll of register_login_flow_2 but the last was answered 404
\* and followed by the delay, after which the next poll is sent; an answer
\* of 200 that holds login details ends the flow with them, an answer with
\* any other status but 404 ends it with LoginFlowError(status), and no poll
\* is sent after either; once a poll is answered with another status than
\* 404 the flow does return.
C28_PollUntilNot404 ==
    /\ [](FlowStarted =>
            LET a == running.input.answers
                r == running.response
            IN
            /\ \A i \in 1..(Len(a) - 1) : a[i] = NOT_FOUND
            /\ Cardinality(Polls)
                  = Len(a) + (IF running.at = "poll" THEN 1 ELSE 0)
            /\ running.at = "delay" => a # <<>> /\ a[Len(a)] = NOT_FOUND
            /\ running.at = "done" =>
                  /\ a # <<>>
                  /\ a[Len(a)] # NOT_FOUND
                  /\ (a[Len(a)] = OK /\ r.body # None) =>
                        outcome = Ok(r.body[1])
                  /\ a[Len(a)] \in Statuses \ {OK, NOT_FOUND} =>
                        outcome = Err(LoginFlowError(a[Len(a)])))
    /\ [][(FlowStarted /\ running.at = "poll") => calls' = calls]_vars
    /\ [][(FlowStarted /\ running.at = "delay" /\ running' # running) =>
             /\ running'.at = "poll"
             /\ calls' = Append(calls, PollOf(running.input.resp))]_vars
    /\ (FlowStarted /\ Answered("poll")
           /\ running.response.t = "response"
           /\ running.response.status # NOT_FOUND) ~> (running.at = "done")
    /\ (FlowStarted /\ running.at = "delay"
           /\ Len(running.input.answers) < MaxPolls) ~> (running.at = "poll")

C28_Witness ==
    /\ FlowStarted
    /\ running.at = "done"
    /\ running.input.answers = <<NOT_FOUND, OK>>
    /\ outcome.kind = "Ok"
    /\ Cardinality(Polls) = 2

\* C29: register_login_flow_2 calls auth_callback once, with the login URL
\* of the PollRequest the server answered login/v2 with, after that answer
\* and before the first poll, and never again; when login/v2 is answered
\* with a status that is no success it returns LoginFlowError(status) having
\* called no callback and sent no poll.
C29_CallbackOnceBeforePolling ==
    InFlow =>
        /\ calls[1] = LoginRequest(running.input.server)
        /\ Cardinality(Callbacks) <= 1
        /\ FlowStarted =>
              /\ Len(calls) >= 3
              /\ calls[2] = auth_callback(running.input.resp.login)
              /\ Callbacks = {2}
              /\ Polls = 3..Len(calls)
        /\ ~FlowStarted => Len(calls) = 1
        /\ (running.at = "done" /\ ~FlowStarted
                /\ running.response.t = "response"
                /\ ~is_success(running.response.status)) =>
              outcome = Err(LoginFlowError(running.response.status))

C29_Witness ==
    /\ FlowStarted
    /\ running.at = "done"
    /\ Callbacks = {2}
    /\ calls[2].url = "https://cloud.example/login/v2/grant"
    /\ Len(calls) = 4

\* the macro last invoked is expanded
Expanded == macro # NoMacro /\ macro.todo = <<>>

\* the settings the callback was invoked for, in order
InvokedFor == [i \in 1..Len(macro.out) |-> macro.out[i].args]

\* C30 (as claimed): the expansion of macro_on_server_settings invokes the
\* callback once for each server setting, in declaration order, and for no
\* user setting; that of macro_on_user_settings does so for the user
\* settings, and that of macro_on_settings for the user settings followed
\* by the server settings.
C30_MacroOverItsSettings ==
    Expanded =>
        /\ \A i \in 1..Len(macro.out) : macro.out[i].callback = macro.callback
        /\ macro.macro = "macro_on_server_settings" =>
              InvokedFor = ServerSettingList
        /\ macro.macro = "macro_on_user_settings" =>
              InvokedFor = UserSettingList
        /\ macro.macro = "macro_on_settings" =>
              InvokedFor = UserSettingList \o ServerSettingList
====
